---- MODULE Spec2Model ----
(***************************************************************************)
(* A model of src/app.py, the Streamlit "RNA-seq DESeq Volcano Plot        *)
(* Analyzer": the attribute parser extract_gene_info, the classifier       *)
(* filter_deseq_data, and the script body that Streamlit runs from top to  *)
(* bottom after every widget event (upload, threshold change, table        *)
(* filter change).                                                         *)
(*                                                                         *)
(* Representation of values.                                               *)
(*   - A text is a sequence of one-character strings.                      *)
(*   - A cell is NA, an integer cell Num(v), a decimal cell Dec, a text    *)
(*     cell Str(t) or a category label Label(l).                           *)
(*   - padj and padj_threshold are decimals  s * m * 10^(-e)  with sign s, *)
(*     mantissa m in 1..9 and exponent e (normalised scientific notation); *)
(*     order is decided exactly on that form.                              *)
(*   - log2FoldChange and its two thresholds are whole numbers; only their *)
(*     order enters the program.                                           *)
(*   - a logarithm is a fixed-point number of thousandths.                 *)
(***************************************************************************)
EXTENDS Integers, Sequences, FiniteSets, TLC

VARIABLES
    call,            \* a direct call of a helper function: its name, arguments, result
    uploaded_file,   \* st.file_uploader: NoFile or the uploaded table
    padj_threshold,  \* st.number_input "Adjusted p-value threshold"
    log2fc_up,       \* st.number_input "log2FC threshold (Upregulated)"
    log2fc_down,     \* st.number_input "log2FC threshold (Downregulated)"
    show_sig,        \* st.selectbox "Show" of the data-table tab
    search_term,     \* st.text_input "Search genes" of the data-table tab
    page             \* what the last run of the script put on the page

vars == <<call, uploaded_file, padj_threshold, log2fc_up, log2fc_down,
          show_sig, search_term, page>>

(***************************************************************************)
(* Bounds of the model.                                                    *)
(***************************************************************************)
MaxRows == 2       \* rows of an uploaded table
MaxLfc == 1        \* |log2FoldChange| and |threshold| of a direct classifier call
MaxTokens == 2     \* key=value tokens of an annotation string

(***************************************************************************)
(* Program constants.                                                      *)
(***************************************************************************)
FloorExp == 300        \* 1e-300, the replacement of a zero padj
BaseMeanFloorExp == 10 \* 1e-10, the replacement of a zero baseMean
ProductMaxLen == 30    \* product_match.group(1)[:30]
DefaultLog2fcUp == 1   \* value=1.0
DefaultLog2fcDown == -1 \* value=-1.0
MinLog2fcUp == 0       \* min_value=0.0
MaxLog2fcDown == 0     \* max_value=0.0

(***************************************************************************)
(* Cells and numbers.                                                      *)
(***************************************************************************)
NA == [k |-> "na"]
Num(v) == [k |-> "int", v |-> v]
Label(l) == [k |-> "label", l |-> l]
Str(t) == [k |-> "str", t |-> t]
Dec(s, m, e) == [k |-> "dec", s |-> s, m |-> m, e |-> e]
Pos(m, e) == Dec(1, m, e)
Zero == Dec(0, 0, 0)

\* pd.isna
IsNA(c) == c.k = "na"

\* a < b on two decimals of magnitude m * 10^(-e), m in 1..9
MagLt(a, b) == a.e > b.e \/ (a.e = b.e /\ a.m < b.m)

\* a < b as IEEE comparison of two cells: FALSE when either side is NaN
DecLt(a, b) ==
    IF a.k # "dec" \/ b.k # "dec" THEN FALSE
    ELSE IF a.s # b.s THEN a.s < b.s
    ELSE IF a.s = 0 THEN FALSE
    ELSE IF a.s = 1 THEN MagLt(a, b)
    ELSE MagLt(b, a)

\* max(a, b) of two decimals
DecMax(a, b) == IF DecLt(a, b) THEN b ELSE a

\* log10 of a mantissa 1..9, in thousandths
Log10Milli(m) ==
    CASE m = 1 -> 0   [] m = 2 -> 301 [] m = 3 -> 477 [] m = 4 -> 602
      [] m = 5 -> 699 [] m = 6 -> 778 [] m = 7 -> 845 [] m = 8 -> 903
      [] m = 9 -> 954

Finite(milli) == [k |-> "finite", milli |-> milli]
PlusInf == [k |-> "inf"]
NaN == [k |-> "nan"]

\* -np.log10(x): NaN for a NaN or negative x (with a RuntimeWarning, no
\* exception), +inf for 0, and  e - log10(m)  for  m * 10^(-e)
NegLog10(x) ==
    IF x.k # "dec" THEN NaN
    ELSE IF x.s < 0 THEN NaN
    ELSE IF x.s = 0 THEN PlusInf
    ELSE Finite(1000 * x.e - Log10Milli(x.m))

\* np.log10(x), for the MA plot
Log10(x) ==
    IF x.k # "dec" THEN NaN
    ELSE IF x.s < 0 THEN NaN
    ELSE IF x.s = 0 THEN [k |-> "-inf"]
    ELSE Finite(Log10Milli(x.m) - 1000 * x.e)

\* Series.replace(0, floor): a cell equal to 0 becomes 10^(-floorExp)
ReplaceZero(x, floorExp) ==
    IF x.k = "dec" /\ x.s = 0 THEN Pos(1, floorExp) ELSE x

(***************************************************************************)
(* Data frames: a set of column names and a sequence of rows, each row     *)
(* with its index label and its cells.                                     *)
(***************************************************************************)
Frame(columns, rows) == [columns |-> columns, rows |-> rows]
Row(idx, cells) == [idx |-> idx, cells |-> cells]

\* df[col] = values, one value for each row
WithColumn(df, col, values) ==
    Frame(df.columns \cup {col},
          [i \in 1..Len(df.rows) |->
              Row(df.rows[i].idx,
                  [c \in df.columns \cup {col} |->
                      IF c = col THEN values[i] ELSE df.rows[i].cells[c]])])

\* boolean indexing df[mask], one boolean for each row
SelectRows(df, mask) ==
    LET RECURSIVE Sel(_)
        Sel(i) == IF i > Len(df.rows) THEN <<>>
                  ELSE IF mask[i] THEN <<df.rows[i]>> \o Sel(i + 1)
                  ELSE Sel(i + 1)
    IN Frame(df.columns, Sel(1))

\* the rows of a frame are numbered 1..Len
RowsOf(df) == 1..Len(df.rows)

(***************************************************************************)
(* filter_deseq_data                                                       *)
(***************************************************************************)
\* LfcLe with <= written as <
LfcLeStrict(c, t) == c.k = "int" /\ c.v < t

\* df_copy['log2FoldChange'] >= t  /  <= t, elementwise (FALSE on NaN)
LfcGe(c, t) == c.k = "int" /\ c.v >= t
LfcLe(c, t) == c.k = "int" /\ c.v <= t

\* np.select(conditions, choices, default): the first condition that holds
NpSelect(conditions, choices, default) ==
    IF \E i \in 1..Len(conditions) : conditions[i]
    THEN choices[CHOOSE i \in 1..Len(conditions) :
                    conditions[i] /\ \A j \in 1..(i - 1) : ~conditions[j]]
    ELSE default

\* Significance with the Downregulated condition listed first
SignificanceDownFirst(r, thr, up, down) ==
    NpSelect(<<DecLt(r.cells["padj"], thr) /\ LfcLe(r.cells["log2FoldChange"], down),
               DecLt(r.cells["padj"], thr) /\ LfcGe(r.cells["log2FoldChange"], up)>>,
             <<"Downregulated", "Upregulated">>,
             "Not Significant")

Significance(r, thr, up, down) ==
    NpSelect(<<DecLt(r.cells["padj"], thr) /\ LfcGe(r.cells["log2FoldChange"], up),
               DecLt(r.cells["padj"], thr) /\ LfcLe(r.cells["log2FoldChange"], down)>>,
             <<"Upregulated", "Downregulated">>,
             "Not Significant")

NegLog10Padj(r) == NegLog10(ReplaceZero(r.cells["padj"], FloorExp))

KeyError == [raised |-> "KeyError"]
Ok(v) == [raised |-> "no", value |-> v]

\* KeyError when df has no padj or no log2FoldChange column
FilterDeseqData(df, thr, up, down) ==
    IF ~({"padj", "log2FoldChange"} \subseteq df.columns) THEN KeyError
    ELSE LET significance == [i \in RowsOf(df) |-> Label(Significance(df.rows[i], thr, up, down))]
             negLog == [i \in RowsOf(df) |-> NegLog10Padj(df.rows[i])]
         IN Ok(WithColumn(WithColumn(df, "Significance", significance),
                          "-log10(padj)", negLog))

(***************************************************************************)
(* Texts                                                                   *)
(***************************************************************************)
UNKNOWN == <<"U", "n", "k", "n", "o", "w", "n">>
KeyGene == <<"g", "e", "n", "e">>
KeyName == <<"N", "a", "m", "e">>
KeyProduct == <<"p", "r", "o", "d", "u", "c", "t">>
KeyLocusTag == <<"l", "o", "c", "u", "s", "_", "t", "a", "g">>
\* the literal heads of the four patterns
GeneEq == KeyGene \o <<"=">>
NameEq == KeyName \o <<"=">>
ProductEq == KeyProduct \o <<"=">>
LocusTagEq == KeyLocusTag \o <<"=">>

\* s[:n]
Take(s, n) == SubSeq(s, 1, IF Len(s) < n THEN Len(s) ELSE n)

NoMatch == [matched |-> FALSE]
Match(group) == [matched |-> TRUE, group |-> group]

\* re.search(prefix + '([^;]+)', s): the leftmost place where prefix stands
\* and is followed by at least one character other than ';'; group(1) is the
\* longest run of such characters from there
ReSearchValue(prefix, s) ==
    LET n == Len(prefix)
        Starts == {i \in 1..Len(s) :
                      /\ i + n <= Len(s)
                      /\ SubSeq(s, i, i + n - 1) = prefix
                      /\ s[i + n] # ";"}
    IN IF Starts = {} THEN NoMatch
       ELSE LET i == CHOOSE a \in Starts : \A b \in Starts : a <= b
                from == i + n
                stop == CHOOSE j \in from..Len(s) :
                            /\ \A q \in from..j : s[q] # ";"
                            /\ (j = Len(s) \/ s[j + 1] = ";")
            IN Match(SubSeq(s, from, stop))

(***************************************************************************)
(* extract_gene_info                                                       *)
(***************************************************************************)
GeneInfo(gene_name, locus_tag) == [gene_name |-> gene_name, locus_tag |-> locus_tag]

\* the value gene_name has after the gene= search
GeneAfterGeneSearch(s) ==
    LET gene_match == ReSearchValue(GeneEq, s)
    IN IF gene_match.matched THEN gene_match.group ELSE UNKNOWN

LocusAfterSearch(s) ==
    LET locus_match == ReSearchValue(LocusTagEq, s)
    IN IF locus_match.matched THEN locus_match.group ELSE UNKNOWN

\* the fallback block under  if gene_name == "Unknown"
GeneFallback(gene_name, s) ==
    IF gene_name = UNKNOWN
    THEN LET name_match == ReSearchValue(NameEq, s)
             product_match == ReSearchValue(ProductEq, s)
         IN IF name_match.matched THEN name_match.group
            ELSE IF product_match.matched
                 THEN Take(product_match.group, ProductMaxLen)
                 ELSE gene_name
    ELSE gene_name

\* attributes_str is a cell: NA or a text
ExtractGeneInfo(attributes_str) ==
    IF IsNA(attributes_str) THEN GeneInfo(UNKNOWN, UNKNOWN)
    ELSE GeneInfo(GeneFallback(GeneAfterGeneSearch(attributes_str.t), attributes_str.t),
                  LocusAfterSearch(attributes_str.t))

(***************************************************************************)
(* Regular-expression search of the data-table tab.  The search text is    *)
(* drawn from SearchTerms, whose characters are letters, '.' and '('.      *)
(***************************************************************************)
Uppers == <<"A", "B", "C", "D", "E", "F", "G", "H", "I", "J", "K", "L", "M",
           "N", "O", "P", "Q", "R", "S", "T", "U", "V", "W", "X", "Y", "Z">>
Lowers == <<"a", "b", "c", "d", "e", "f", "g", "h", "i", "j", "k", "l", "m",
           "n", "o", "p", "q", "r", "s", "t", "u", "v", "w", "x", "y", "z">>

\* re.IGNORECASE on one character
Lower(c) == IF \E i \in 1..Len(Uppers) : Uppers[i] = c
            THEN Lowers[CHOOSE i \in 1..Len(Uppers) : Uppers[i] = c]
            ELSE c

\* re.compile(pat) raises re.error on a '(' that no ')' closes
ReCompileRaises(pat) ==
    \E i \in 1..Len(pat) : pat[i] = "(" /\ \A j \in (i + 1)..Len(pat) : pat[j] # ")"

\* one pattern character against one text character: '.' is any character
ReCharMatches(pc, tc) == pc = "." \/ Lower(pc) = Lower(tc)

\* pat.search(text) is not None, for a compiled pattern of letters and '.'
ReSearchFound(pat, text) ==
    \E i \in 1..(Len(text) - Len(pat) + 1) :
        \A q \in 1..Len(pat) : ReCharMatches(pat[q], text[i + q - 1])

\* Series.str.contains(pat, case=False, na=False) on one cell (regex=True is
\* the default)
StrContains(cell, pat) == IF cell.k = "str" THEN ReSearchFound(pat, cell.t) ELSE FALSE

(***************************************************************************)
(* The script body                                                         *)
(***************************************************************************)
NoFile == [k |-> "none"]
None == [k |-> "none"]
ReError == [raised |-> "re.error"]

DigitChars == <<"0", "1", "2", "3", "4", "5", "6", "7", "8", "9">>

\* str(n) of an index label n >= 0
RECURSIVE IntToText(_)
IntToText(n) == IF n < 10 THEN <<DigitChars[n + 1]>>
                ELSE IntToText(n \div 10) \o <<DigitChars[(n % 10) + 1]>>

\* load_data: pd.read_csv gives the rows a RangeIndex 0, 1, 2, ...  An
\* uploaded file is its parsed content: the column names and, line by line,
\* the cells, where NA stands for any of the tokens 'NA', 'NaN', ''.
\* st.cache_data memoises on the content and hands every caller its own copy.
LoadData(file) ==
    Frame(file.columns, [i \in 1..Len(file.lines) |-> Row(i - 1, file.lines[i])])

\* df[['gene_name', 'locus_tag']] = df['Attributes'].apply(...)
AnnotateFromAttributes(df) ==
    LET info == [i \in RowsOf(df) |-> ExtractGeneInfo(df.rows[i].cells["Attributes"])]
    IN WithColumn(WithColumn(df, "gene_name", [i \in RowsOf(df) |-> Str(info[i].gene_name)]),
                  "locus_tag", [i \in RowsOf(df) |-> Str(info[i].locus_tag)])

\* IndexLabel counting the rows from 1
IndexLabelOneBased(r) == Str(IntToText(r.idx + 1))

\* df.index.astype(str), one label
IndexLabel(r) == Str(IntToText(r.idx))

\* df['gene_name'] = df.index.astype(str); df['locus_tag'] = df.index.astype(str)
AnnotateFromIndex(df) ==
    LET labels == [i \in RowsOf(df) |-> IndexLabel(df.rows[i])]
    IN WithColumn(WithColumn(df, "gene_name", labels), "locus_tag", labels)

\* DropNaKeeps with how='all': a row goes only when every column of subset is null
DropNaKeepsAny(r, subset) == \E c \in subset : ~IsNA(r.cells[c])

\* does df.dropna(subset=...) keep the row
DropNaKeeps(r, subset) == \A c \in subset : ~IsNA(r.cells[c])

\* DropNa that takes a missing column for a column of nulls: no KeyError, and
\* every row dropped
DropNaMissingAsNull(df, subset) ==
    IF ~(subset \subseteq df.columns) THEN Ok(Frame(df.columns \cup subset, <<>>))
    ELSE Ok(SelectRows(df, [i \in RowsOf(df) |-> \A c \in subset : ~IsNA(df.rows[i].cells[c])]))

\* df.dropna(subset=subset): KeyError when a column of subset is missing
DropNa(df, subset) ==
    IF ~(subset \subseteq df.columns) THEN KeyError
    ELSE Ok(SelectRows(df, [i \in RowsOf(df) |-> DropNaKeeps(df.rows[i], subset)]))

CountOf(df, label) ==
    Cardinality({i \in 1..Len(df.rows) : df.rows[i].cells["Significance"] = Label(label)})

\* the four st.metric values
Metrics(df) ==
    [total |-> Len(df.rows),
     up |-> CountOf(df, "Upregulated"),
     down |-> CountOf(df, "Downregulated"),
     ns |-> CountOf(df, "Not Significant")]

\* create_volcano_plot writes the column hover_text into the frame it is
\* given; the text is kept as the list of its parts
HoverText(r) ==
    [k |-> "hover",
     parts |-> <<r.cells["gene_name"], r.cells["locus_tag"], r.cells["log2FoldChange"],
                 r.cells["padj"], r.cells["Significance"]>>]

CreateVolcanoPlot(df) ==
    WithColumn(df, "hover_text", [i \in RowsOf(df) |-> HoverText(df.rows[i])])

Log10BaseMean(r) == Log10(ReplaceZero(r.cells["baseMean"], BaseMeanFloorExp))

\* tab2: df_filtered['log10(baseMean)'] = ... when the column baseMean exists
MaPlot(df) ==
    IF "baseMean" \in df.columns
    THEN WithColumn(df, "log10(baseMean)", [i \in RowsOf(df) |-> Log10BaseMean(df.rows[i])])
    ELSE df

\* tab6: the category filter, then the search
DataTableView(df_filtered, show, search) ==
    LET byCategory ==
            IF show # "All"
            THEN SelectRows(df_filtered,
                            [i \in RowsOf(df_filtered) |->
                                df_filtered.rows[i].cells["Significance"] = Label(show)])
            ELSE df_filtered
    IN IF search = <<>> THEN Ok(byCategory)
       ELSE IF ReCompileRaises(search) THEN ReError
       ELSE Ok(SelectRows(byCategory,
                          [i \in RowsOf(byCategory) |->
                              StrContains(byCategory.rows[i].cells["gene_name"], search)]))

\* display_df.to_csv(index=False): the header and the cells, no index labels
ToCsv(df) == [header |-> df.columns,
              records |-> [i \in 1..Len(df.rows) |-> df.rows[i].cells]]

Plots(df) == {"volcano", "box", "heatmap_warning", "pvalue"}
                 \cup (IF "baseMean" \in df.columns THEN {"ma"} ELSE {})

InfoPage ==
    [elements |-> {"info"}, annotated |-> None, metrics |-> None,
     table_source |-> None, display_df |-> None, csv |-> None]

\* the except block, entered before filter_deseq_data has returned
ErrorPage(elements) ==
    [elements |-> elements \cup {"error"}, annotated |-> None, metrics |-> None,
     table_source |-> None, display_df |-> None, csv |-> None]

\* the tabs, run on the frame filter_deseq_data returned
RenderTabs(elements, annotated, show, search) ==
    LET df_filtered == MaPlot(CreateVolcanoPlot(annotated))
        shown == elements \cup {"metrics"} \cup Plots(annotated)
        view == DataTableView(df_filtered, show, search)
    IN IF view.raised # "no"
       THEN [elements |-> shown \cup {"error"}, annotated |-> annotated,
             metrics |-> Metrics(annotated), table_source |-> df_filtered,
             display_df |-> None, csv |-> None]
       ELSE [elements |-> shown \cup {"table", "csv"}, annotated |-> annotated,
             metrics |-> Metrics(annotated), table_source |-> df_filtered,
             display_df |-> view.value, csv |-> ToCsv(view.value)]

\* one run of the script, top to bottom
RunScript(file, thr, up, down, show, search) ==
    IF file = NoFile THEN InfoPage
    ELSE LET df == LoadData(file)
             hasAttributes == "Attributes" \in df.columns
             labelled == IF hasAttributes THEN AnnotateFromAttributes(df)
                         ELSE AnnotateFromIndex(df)
             elements == {"success"} \cup (IF hasAttributes THEN {} ELSE {"warning"})
             cleaned == DropNa(labelled, {"log2FoldChange", "padj"})
         IN IF cleaned.raised # "no" THEN ErrorPage(elements)
            ELSE LET classified == FilterDeseqData(cleaned.value, thr, up, down)
                 IN IF classified.raised # "no" THEN ErrorPage(elements)
                    ELSE RenderTabs(elements, classified.value, show, search)

(***************************************************************************)
(* Inputs                                                                  *)
(***************************************************************************)
AllColumns == {"log2FoldChange", "padj", "Attributes", "baseMean"}

\* the column sets of the uploaded files: complete, and with one or two of
\* the columns left out
ColumnSets ==
    {AllColumns,
     AllColumns \ {"Attributes"},
     AllColumns \ {"baseMean"},
     AllColumns \ {"padj"},
     AllColumns \ {"log2FoldChange", "Attributes"}}

Line(lfc, padj, attributes, baseMean) ==
    [c \in AllColumns |->
        CASE c = "log2FoldChange" -> lfc
          [] c = "padj" -> padj
          [] c = "Attributes" -> attributes
          [] c = "baseMean" -> baseMean]

\* gene=aB;locus_tag=b1
AttrGene == GeneEq \o <<"a", "B", ";">> \o LocusTagEq \o <<"b", "1">>
\* Name=c
AttrName == NameEq \o <<"c">>

\* the lines an uploaded file is made of: a complete line that the default
\* thresholds call Upregulated, a complete line with padj = 0 that they call
\* Downregulated, a line without log2FoldChange and a line without padj
RawLines ==
    {Line(Num(1), Pos(1, 3), Str(AttrGene), Pos(1, -2)),
     Line(Num(-1), Zero, NA, Zero),
     Line(NA, Pos(1, 3), Str(AttrName), Pos(1, 0)),
     Line(Num(0), NA, NA, NA)}

Tables == UNION {[1..n -> RawLines] : n \in 1..MaxRows}

Files ==
    {[columns |-> cs, lines |-> [i \in DOMAIN t |-> [c \in cs |-> t[i][c]]]] :
        cs \in ColumnSets, t \in Tables}

DefaultPadjThreshold == Pos(5, 2)
\* the values the threshold widgets are set to
PadjThresholdChoices == {DefaultPadjThreshold, Pos(1, 0)}
Log2fcUpChoices == {MinLog2fcUp, DefaultLog2fcUp}
Log2fcDownChoices == {DefaultLog2fcDown, MaxLog2fcDown}
ShowChoices == {"All", "Upregulated", "Downregulated", "Not Significant"}
SearchTerms == {<<>>, <<"a">>, <<"b">>, <<"A", "b">>, <<".">>, <<"(">>, <<"a", ".">>}

(***************************************************************************)
(* The session: every widget event reruns the script                       *)
(***************************************************************************)
NoCall == [fn |-> "none"]

Init ==
    /\ call = NoCall
    /\ uploaded_file = NoFile
    /\ padj_threshold = DefaultPadjThreshold
    /\ log2fc_up = DefaultLog2fcUp
    /\ log2fc_down = DefaultLog2fcDown
    /\ show_sig = "All"
    /\ search_term = <<>>
    /\ page = InfoPage

\* Streamlit keeps the value of a widget only while the script creates it: a
\* run that does not get to the widgets of tab6 (lines 371 and 373) puts them
\* back to their first values
TableWidgetsShown(p) == p.table_source # None
KeptShowSig(p, v) == IF TableWidgetsShown(p) THEN v ELSE "All"
KeptSearchTerm(p, v) == IF TableWidgetsShown(p) THEN v ELSE <<>>

\* one rerun of the script after a widget event that leaves the widgets with
\* the values file, thr, up, down, show, search
Rerun(file, thr, up, down, show, search) ==
    /\ uploaded_file' = file
    /\ padj_threshold' = thr
    /\ log2fc_up' = up
    /\ log2fc_down' = down
    /\ page' = RunScript(file, thr, up, down, show, search)
    /\ show_sig' = KeptShowSig(page', show)
    /\ search_term' = KeptSearchTerm(page', search)
    /\ UNCHANGED call

\* a file is put into the uploader (again, or in place of another)
Upload(f) ==
    /\ call = NoCall
    /\ Rerun(f, padj_threshold, log2fc_up, log2fc_down, show_sig, search_term)

\* the file is taken out of the uploader
RemoveFile ==
    /\ call = NoCall
    /\ uploaded_file # NoFile
    /\ Rerun(NoFile, padj_threshold, log2fc_up, log2fc_down, show_sig, search_term)

SetPadjThreshold(v) ==
    /\ call = NoCall
    /\ v # padj_threshold
    /\ Rerun(uploaded_file, v, log2fc_up, log2fc_down, show_sig, search_term)

SetLog2fcUp(v) ==
    /\ call = NoCall
    /\ v # log2fc_up
    /\ Rerun(uploaded_file, padj_threshold, v, log2fc_down, show_sig, search_term)

SetLog2fcDown(v) ==
    /\ call = NoCall
    /\ v # log2fc_down
    /\ Rerun(uploaded_file, padj_threshold, log2fc_up, v, show_sig, search_term)

\* the widgets of the data-table tab can be changed only on a page that shows them
SetShowSig(v) ==
    /\ call = NoCall
    /\ TableWidgetsShown(page)
    /\ v # show_sig
    /\ Rerun(uploaded_file, padj_threshold, log2fc_up, log2fc_down, v, search_term)

SetSearchTerm(v) ==
    /\ call = NoCall
    /\ TableWidgetsShown(page)
    /\ v # search_term
    /\ Rerun(uploaded_file, padj_threshold, log2fc_up, log2fc_down, show_sig, v)

ThresholdEvent ==
    \/ \E v \in PadjThresholdChoices : SetPadjThreshold(v)
    \/ \E v \in Log2fcUpChoices : SetLog2fcUp(v)
    \/ \E v \in Log2fcDownChoices : SetLog2fcDown(v)

TableEvent ==
    \/ \E v \in ShowChoices : SetShowSig(v)
    \/ \E v \in SearchTerms : SetSearchTerm(v)

FileEvent ==
    \/ \E f \in Files : Upload(f)
    \/ RemoveFile

Next == FileEvent \/ ThresholdEvent \/ TableEvent

Spec == Init /\ [][Next]_vars

\* the session with the data-table widgets left as they start
NextSession == FileEvent \/ ThresholdEvent
SpecSession == Init /\ [][NextSession]_vars

\* the session with the thresholds left as they start
NextTable == FileEvent \/ TableEvent
SpecTable == Init /\ [][NextTable]_vars

(***************************************************************************)
(* Direct calls of filter_deseq_data on a frame of one row                 *)
(***************************************************************************)
PadjValues ==
    {NA, Dec(-1, 1, 0), Zero, Pos(1, 310), Pos(1, FloorExp), Pos(1, 3), Pos(5, 2), Pos(1, 0)}
LfcValues == {NA} \cup {Num(v) : v \in (-MaxLfc)..MaxLfc}
PadjThresholds == {Zero, Pos(1, 3), Pos(5, 2), Pos(1, 0), Pos(2, 0)}
LfcThresholds == (-MaxLfc)..MaxLfc

OneRowFrame(lfc, padj) ==
    Frame({"log2FoldChange", "padj"},
          <<Row(0, [c \in {"log2FoldChange", "padj"} |->
                       IF c = "padj" THEN padj ELSE lfc])>>)

Idle ==
    /\ uploaded_file = NoFile
    /\ padj_threshold = DefaultPadjThreshold
    /\ log2fc_up = DefaultLog2fcUp
    /\ log2fc_down = DefaultLog2fcDown
    /\ show_sig = "All"
    /\ search_term = <<>>
    /\ page = InfoPage

InitClassify ==
    /\ Idle
    /\ \E lfc \in LfcValues, padj \in PadjValues, thr \in PadjThresholds,
          up \in LfcThresholds, down \in LfcThresholds :
          call = [fn |-> "filter_deseq_data", df |-> OneRowFrame(lfc, padj),
                  padj_threshold |-> thr, log2fc_up |-> up, log2fc_down |-> down,
                  done |-> FALSE, ret |-> None]

CallFilterDeseqData ==
    /\ call.fn = "filter_deseq_data"
    /\ ~call.done
    /\ call' = [call EXCEPT !.done = TRUE,
                            !.ret = FilterDeseqData(call.df, call.padj_threshold,
                                                    call.log2fc_up, call.log2fc_down)]
    /\ UNCHANGED <<uploaded_file, padj_threshold, log2fc_up, log2fc_down,
                   show_sig, search_term, page>>

SpecClassify == InitClassify /\ [][CallFilterDeseqData]_vars

\* the call under inspection, once it has returned
Classified == call.fn = "filter_deseq_data" /\ call.done
ArgRow == call.df.rows[1].cells
RetRow == call.ret.value.rows[1].cells
ArgNonNull == ~IsNA(ArgRow["log2FoldChange"]) /\ ~IsNA(ArgRow["padj"])
PadjBelow == DecLt(ArgRow["padj"], call.padj_threshold)
UpCondition == PadjBelow /\ ArgRow["log2FoldChange"].v >= call.log2fc_up
DownCondition == PadjBelow /\ ArgRow["log2FoldChange"].v <= call.log2fc_down
\* the thresholds the sidebar accepts
UiThresholds ==
    /\ ~DecLt(call.padj_threshold, Zero)
    /\ ~DecLt(Pos(1, 0), call.padj_threshold)
    /\ call.log2fc_up >= MinLog2fcUp
    /\ call.log2fc_down <= MaxLog2fcDown

\* C1: a row with both values present gets the label of the first condition
\* that holds: Upregulated iff padj < padj_threshold and log2FoldChange >=
\* log2fc_up; else Downregulated if padj < padj_threshold and log2FoldChange
\* <= log2fc_down; else Not Significant.  So padj = padj_threshold gives Not
\* Significant, and a row meeting both conditions is Upregulated.
C1_FirstMatch ==
    (Classified /\ ArgNonNull) =>
        /\ call.ret.raised = "no"
        /\ (RetRow["Significance"] = Label("Upregulated")) <=> UpCondition
        /\ (RetRow["Significance"] = Label("Downregulated")) <=> (~UpCondition /\ DownCondition)
        /\ (RetRow["Significance"] = Label("Not Significant"))
               <=> (~UpCondition /\ ~DownCondition)
        /\ (ArgRow["padj"] = call.padj_threshold)
               => RetRow["Significance"] = Label("Not Significant")
        /\ (PadjBelow /\ ArgRow["log2FoldChange"].v = call.log2fc_up)
               => RetRow["Significance"] = Label("Upregulated")

\* C1 witness: a row that meets the up and the down condition has been classified
C1_Witness ==
    Classified /\ ArgNonNull /\ UpCondition /\ DownCondition
        /\ RetRow["Significance"] = Label("Upregulated")

\* C2 as stated: under thresholds the sidebar accepts, Downregulated iff
\* padj < padj_threshold and log2FoldChange <= log2fc_down
C2_DownIff ==
    (Classified /\ ArgNonNull /\ UiThresholds) =>
        ((RetRow["Significance"] = Label("Downregulated")) <=> DownCondition)

\* C2 amended: under thresholds the sidebar accepts, Downregulated iff
\* padj < padj_threshold and log2FoldChange <= log2fc_down and not
\* log2FoldChange >= log2fc_up
C2_DownIffNotUp ==
    (Classified /\ ArgNonNull /\ UiThresholds) =>
        ((RetRow["Significance"] = Label("Downregulated"))
            <=> (DownCondition /\ ~(ArgRow["log2FoldChange"].v >= call.log2fc_up)))

\* C2 witness: sidebar thresholds 0 and 0, a row with log2FoldChange 0 below
\* the padj threshold
C2_Witness ==
    Classified /\ ArgNonNull /\ UiThresholds /\ DownCondition
        /\ call.log2fc_up = 0 /\ call.log2fc_down = 0
        /\ RetRow["Significance"] = Label("Upregulated")

\* C3: -log10(padj) of a row equals -log10(max(padj, 1e-300)) and is finite
C3_FlooredLog ==
    (Classified /\ ArgNonNull) =>
        /\ call.ret.raised = "no"
        /\ RetRow["-log10(padj)"] = NegLog10(DecMax(ArgRow["padj"], Pos(1, FloorExp)))
        /\ RetRow["-log10(padj)"].k = "finite"

(***************************************************************************)
(* Direct calls of extract_gene_info on annotation strings made of         *)
(* key=value tokens joined by ';'                                          *)
(***************************************************************************)
KeyOldLocusTag == <<"o", "l", "d", "_">> \o KeyLocusTag
KeyPseudogene == <<"p", "s", "e", "u", "d", "o">> \o KeyGene
KeyID == <<"I", "D">>
TokenKeys == {KeyGene, KeyName, KeyProduct, KeyLocusTag, KeyOldLocusTag, KeyPseudogene, KeyID}

\* a value one character longer than the product limit
LongValue == [i \in 1..(ProductMaxLen + 1) |-> IF i <= ProductMaxLen THEN "x" ELSE "y"]
TokenValues == {<<"b", "1">>, <<"c", "2">>, LongValue}

AnnotationTokens == {k \o <<"=">> \o v : k \in TokenKeys, v \in TokenValues}

RECURSIVE Join(_)
Join(tokens) == IF Len(tokens) = 1 THEN tokens[1]
                ELSE tokens[1] \o <<";">> \o Join(Tail(tokens))

Annotations ==
    {NA} \cup {Str(Join(t)) : t \in UNION {[1..n -> AnnotationTokens] : n \in 1..MaxTokens}}

InitParse ==
    /\ Idle
    /\ \E a \in Annotations :
          call = [fn |-> "extract_gene_info", attributes_str |-> a,
                  done |-> FALSE, ret |-> None]

CallExtractGeneInfo ==
    /\ call.fn = "extract_gene_info"
    /\ ~call.done
    /\ call' = [call EXCEPT !.done = TRUE, !.ret = ExtractGeneInfo(call.attributes_str)]
    /\ UNCHANGED <<uploaded_file, padj_threshold, log2fc_up, log2fc_down,
                   show_sig, search_term, page>>

SpecParse == InitParse /\ [][CallExtractGeneInfo]_vars

\* The token reading of an annotation string that C4 and C5 speak of: the
\* string cut at every ';', each piece cut at its first '='.
RECURSIVE SplitTokens(_)
SplitTokens(s) ==
    IF \E i \in 1..Len(s) : s[i] = ";"
    THEN LET i == CHOOSE a \in 1..Len(s) : s[a] = ";" /\ \A b \in 1..(a - 1) : s[b] # ";"
         IN <<SubSeq(s, 1, i - 1)>> \o SplitTokens(SubSeq(s, i + 1, Len(s)))
    ELSE <<s>>

TokenHasKey(token, key) ==
    /\ Len(token) > Len(key)
    /\ SubSeq(token, 1, Len(key)) = key
    /\ token[Len(key) + 1] = "="

HasToken(s, key) == \E i \in 1..Len(SplitTokens(s)) : TokenHasKey(SplitTokens(s)[i], key)

\* the value of the first token whose key is exactly key
TokenValue(s, key) ==
    LET tokens == SplitTokens(s)
        i == CHOOSE a \in 1..Len(tokens) :
                 /\ TokenHasKey(tokens[a], key)
                 /\ \A b \in 1..(a - 1) : ~TokenHasKey(tokens[b], key)
    IN SubSeq(tokens[i], Len(key) + 2, Len(tokens[i]))

Parsed == call.fn = "extract_gene_info" /\ call.done
ArgText == call.attributes_str.t

\* C4: locus_tag is the value of the token whose key is exactly locus_tag,
\* and "Unknown" when no token has that key
C4_LocusTagToken ==
    (Parsed /\ ~IsNA(call.attributes_str)) =>
        call.ret.locus_tag = IF HasToken(ArgText, KeyLocusTag)
                             THEN TokenValue(ArgText, KeyLocusTag)
                             ELSE UNKNOWN

\* C5: gene_name is the value of the gene token, else of the Name token, else
\* the first 30 characters of the value of the product token, else "Unknown";
\* a null input gives ("Unknown", "Unknown")
C5_GeneNameToken ==
    Parsed =>
        IF IsNA(call.attributes_str)
        THEN call.ret = GeneInfo(UNKNOWN, UNKNOWN)
        ELSE call.ret.gene_name =
                 IF HasToken(ArgText, KeyGene) THEN TokenValue(ArgText, KeyGene)
                 ELSE IF HasToken(ArgText, KeyName) THEN TokenValue(ArgText, KeyName)
                 ELSE IF HasToken(ArgText, KeyProduct)
                      THEN Take(TokenValue(ArgText, KeyProduct), ProductMaxLen)
                 ELSE UNKNOWN

(***************************************************************************)
(* Properties of the session                                               *)
(***************************************************************************)
RequiredColumns == {"log2FoldChange", "padj"}
Produced == {"metrics", "volcano", "ma", "box", "heatmap_warning", "pvalue", "table", "csv"}

\* the positions (from 1) of the lines of the upload that have both values
CompleteLines ==
    {i \in 1..Len(uploaded_file.lines) :
        /\ ~IsNA(uploaded_file.lines[i]["log2FoldChange"])
        /\ ~IsNA(uploaded_file.lines[i]["padj"])}

\* the index labels of a frame, in order
IndexOf(df) == [j \in 1..Len(df.rows) |-> df.rows[j].idx]

\* C6: the rows of the annotated table are exactly the lines of the upload
\* that have both log2FoldChange and padj, in the order of the upload and with
\* the uploaded cells; the total count, the frame the data table reads and the
\* rows it shows hold no other line
C6_RowsKept ==
    (uploaded_file # NoFile /\ page.annotated # None) =>
        LET rows == page.annotated.rows
        IN /\ Len(rows) = Cardinality(CompleteLines)
           /\ \A j \in 1..Len(rows) :
                 /\ rows[j].idx + 1 \in CompleteLines
                 /\ \A c \in uploaded_file.columns :
                       rows[j].cells[c] = uploaded_file.lines[rows[j].idx + 1][c]
           /\ \A j, q \in 1..Len(rows) : j < q => rows[j].idx < rows[q].idx
           /\ page.metrics.total = Cardinality(CompleteLines)
           /\ IndexOf(page.table_source) = IndexOf(page.annotated)
           /\ page.display_df # None =>
                 \A j \in 1..Len(page.display_df.rows) :
                     page.display_df.rows[j].idx + 1 \in CompleteLines

\* C6 witness: an upload of two or more lines of which a later one is kept
\* and an earlier one, lacking a value, is dropped
C6_Witness ==
    /\ uploaded_file # NoFile
    /\ page.annotated # None
    /\ Len(page.annotated.rows) >= 1
    /\ Len(page.annotated.rows) < Len(uploaded_file.lines)
    /\ page.annotated.rows[1].idx >= 1

\* C7: an upload without the log2FoldChange or the padj column ends in the
\* error state: an error is shown and no annotated table, count, plot, table
\* view or export is produced
C7_MissingColumnIsError ==
    (uploaded_file # NoFile /\ ~(RequiredColumns \subseteq uploaded_file.columns)) =>
        /\ "error" \in page.elements
        /\ page.elements \cap Produced = {}
        /\ page.annotated = None
        /\ page.metrics = None
        /\ page.table_source = None
        /\ page.display_df = None
        /\ page.csv = None

\* C7 witness: an upload that lacks a required column and the Attributes
\* column has been run
C7_Witness ==
    /\ uploaded_file # NoFile
    /\ ~(RequiredColumns \subseteq uploaded_file.columns)
    /\ "Attributes" \notin uploaded_file.columns
    /\ page.elements = {"success", "warning", "error"}

\* str(n) written out for the labels 0..99
ExpectedIndexText(n) ==
    IF n < 10 THEN <<DigitChars[n + 1]>>
    ELSE <<DigitChars[(n \div 10) + 1], DigitChars[(n % 10) + 1]>>

LiteralContains(text, pat) ==
    \E i \in 1..(Len(text) - Len(pat) + 1) :
        \A q \in 1..Len(pat) : Lower(pat[q]) = Lower(text[i + q - 1])

\* the rows of the annotated table that the category and the search text select
SelectedIndex ==
    LET Wanted(r) ==
            /\ show_sig = "All" \/ r.cells["Significance"] = Label(show_sig)
            /\ search_term = <<>> \/ LiteralContains(r.cells["gene_name"].t, search_term)
    IN IndexOf(SelectRows(page.annotated,
                          [i \in RowsOf(page.annotated) |-> Wanted(page.annotated.rows[i])]))

\* C9: for every category and every search text the data-table view is
\* computed without an exception and holds exactly the rows of the annotated
\* table of that category whose gene_name contains the search text literally,
\* letter case ignored
C9_LiteralSearch ==
    (uploaded_file # NoFile /\ page.annotated # None) =>
        /\ "error" \notin page.elements
        /\ page.display_df # None
        /\ IndexOf(page.display_df) = SelectedIndex

\* the classifier's output for the rows ingested from the current upload
\* under the current thresholds
ExpectedAnnotated ==
    LET df == LoadData(uploaded_file)
        labelled == IF "Attributes" \in df.columns THEN AnnotateFromAttributes(df)
                    ELSE AnnotateFromIndex(df)
    IN FilterDeseqData(DropNa(labelled, RequiredColumns).value,
                       padj_threshold, log2fc_up, log2fc_down).value

\* C10: the frame the data-table view and the export read is exactly the
\* classifier's output for the current upload and thresholds: same rows, same
\* columns, same values
C10_TableIsClassifierOutput ==
    (uploaded_file # NoFile /\ page.table_source # None) =>
        /\ page.table_source = ExpectedAnnotated
        /\ page.csv # None => page.csv.header = ExpectedAnnotated.columns
====
